---- MODULE Spec2Model ----
(***************************************************************************)
(* Model of the browser-side API client of Echosense AI                    *)
(* (frontend/js/api.js, class EchosenseAPI and the singleton `api`).       *)
(*                                                                         *)
(* A call of a public operation is an async function: it runs until its    *)
(* first await (the request is handed to the transport), resumes when the  *)
(* fetch promise settles, and resumes once more when the body promise      *)
(* (response.json()) settles.  Every call slot records the observable      *)
(* events of its call (the fetch it issued, what it wrote to               *)
(* console.error, the value it returned or the error it threw).            *)
(***************************************************************************)
EXTENDS Integers, Sequences, FiniteSets, TLC

(***************************************************************************)
(* Bounds of the model.                                                    *)
(***************************************************************************)
NumSlots == 2          \* calls that may be in flight at the same time
MaxN     == 1          \* supplied days/limit arguments range over 0..MaxN

Slots == 1..NumSlots

(***************************************************************************)
(* JavaScript / JSON values.                                               *)
(***************************************************************************)
JUndefined == [t |-> "undefined"]
JNull      == [t |-> "null"]
JStr(s)    == [t |-> "string", s |-> s]
JNum(n)    == [t |-> "number", n |-> n]
JObj(f)    == [t |-> "object", f |-> f]

NoFields == [k \in {} |-> JNull]

\* ToBoolean, as applied by the || operator.
Truthy(v) ==
  CASE v.t = "undefined" -> FALSE
    [] v.t = "null"      -> FALSE
    [] v.t = "string"    -> v.s # ""
    [] v.t = "number"    -> v.n # 0
    [] OTHER             -> TRUE

\* ToString, as applied by the Error constructor to its message argument.
ToStr(v) ==
  CASE v.t = "undefined" -> "undefined"
    [] v.t = "null"      -> "null"
    [] v.t = "string"    -> v.s
    [] v.t = "number"    -> ToString(v.n)
    [] OTHER             -> "[object Object]"

\* Property read v.detail of a value that is neither null nor undefined.
Detail(v) ==
  IF v.t = "object" /\ "detail" \in DOMAIN v.f THEN v.f["detail"] ELSE JUndefined

(***************************************************************************)
(* Response bodies, as texts, and what response.json() makes of them.      *)
(***************************************************************************)
BodyTexts ==
  { "",
    "<html>Bad Gateway</html>",
    "null",
    "{}",
    "{\"call_id\":\"abc123\"}",
    "{\"detail\":\"Call not found\"}",
    "{\"detail\":\"\"}",
    "{\"detail\":0}",
    "{\"detail\":422}",
    "{\"detail\":null}",
    "{\"detail\":{\"msg\":\"bad id\"}}" }

Parsed(v)    == [ok |-> TRUE, value |-> v]
SyntaxError  == [name |-> "SyntaxError", message |-> "Unexpected token"]
ParseFailure == [ok |-> FALSE, error |-> SyntaxError]

ParseJSON(text) ==
  CASE text = "null" -> Parsed(JNull)
    [] text = "{}"   -> Parsed(JObj(NoFields))
    [] text = "{\"call_id\":\"abc123\"}" ->
         Parsed(JObj([call_id |-> JStr("abc123")]))
    [] text = "{\"detail\":\"Call not found\"}" ->
         Parsed(JObj([detail |-> JStr("Call not found")]))
    [] text = "{\"detail\":\"\"}"   -> Parsed(JObj([detail |-> JStr("")]))
    [] text = "{\"detail\":0}"      -> Parsed(JObj([detail |-> JNum(0)]))
    [] text = "{\"detail\":422}"    -> Parsed(JObj([detail |-> JNum(422)]))
    [] text = "{\"detail\":null}"   -> Parsed(JObj([detail |-> JNull]))
    [] text = "{\"detail\":{\"msg\":\"bad id\"}}" ->
         Parsed(JObj([detail |-> JObj([msg |-> JStr("bad id")])]))
    [] OTHER -> ParseFailure

Statuses == {200, 404, 500}

\* Response.ok
Ok(status) == status >= 200 /\ status <= 299

(***************************************************************************)
(* Errors.                                                                 *)
(***************************************************************************)
Error(message) == [name |-> "Error", message |-> message]

\* What fetch() rejects with when the request cannot be completed.
NetworkError == [name |-> "TypeError", message |-> "Failed to fetch"]

\* Reading .detail of null.
NullReadError ==
  [name |-> "TypeError", message |-> "Cannot read properties of null"]

(***************************************************************************)
(* Requests.  Objects are functions from their own property names; the     *)
(* spread {...a, ...b} keeps a's properties unless b has them too.         *)
(***************************************************************************)
API_BASE_URL == "http://localhost:8000"

BaseUrls == {API_BASE_URL, "https://echosense.example"}

NoProps == [k \in {} |-> ""]

Spread(a, b) == b @@ a

ContentType == "Content-Type"
JsonType    == "application/json"

\* options.headers, spread into an object literal (undefined spreads to nothing)
OptionHeaders(options) ==
  IF "headers" \in DOMAIN options THEN options["headers"] ELSE NoProps

\* Variant: the spread written first, so that the default wins.
MergedHeadersDefaultFirst(options) ==
  Spread(OptionHeaders(options), (ContentType :> JsonType))

\* The headers property of the init object _fetch passes to fetch().
MergedHeaders(options) ==
  Spread((ContentType :> JsonType), OptionHeaders(options))

\* An init object: its method, body and headers properties, each present or not.
Init3(hasMethod, method, hasBody, body, hasHeaders, headers) ==
  [hasMethod |-> hasMethod, method |-> method,
   hasBody |-> hasBody, body |-> body,
   hasHeaders |-> hasHeaders, headers |-> headers]

NoBody == [kind |-> "none", fields |-> << >>]
FormData(fields) == [kind |-> "FormData", fields |-> fields]

\* The caller's options of _fetch: an object whose method and headers
\* properties are each present or absent ({} when both are absent).
Options(hasMethod, method, hasHeaders, headers) ==
  IF hasHeaders
    THEN [hasMethod |-> hasMethod, method |-> method, headers |-> headers]
    ELSE [hasMethod |-> hasMethod, method |-> method]

NoOptions == Options(FALSE, "", FALSE, NoProps)

\* The request _fetch hands to fetch(): url and {...options, headers: {...}}.
FetchRequest(base, endpoint, options) ==
  [url  |-> base \o endpoint,
   init |-> Init3(options.hasMethod, options.method, FALSE, NoBody,
                  TRUE, MergedHeaders(options))]

\* Variant: the upload sent with the JSON header of the generic helper.
UploadRequestJson(base, file) ==
  [url  |-> base \o "/api/upload/audio",
   init |-> Init3(TRUE, "POST", TRUE, FormData(<< <<"file", file>> >>),
                  TRUE, (ContentType :> JsonType))]

\* The request uploadAudio hands to fetch().
UploadRequest(base, file) ==
  [url  |-> base \o "/api/upload/audio",
   init |-> Init3(TRUE, "POST", TRUE, FormData(<< <<"file", file>> >>),
                  FALSE, NoProps)]

\* The method the transport uses: fetch() defaults to GET.
Method(req) == IF req.init.hasMethod THEN req.init.method ELSE "GET"

\* The headers the client set on the request.
Headers(req) == IF req.init.hasHeaders THEN req.init.headers ELSE NoProps

(***************************************************************************)
(* Observable events of a call, in the order the call produces them.       *)
(***************************************************************************)
EvFetch(req)      == [type |-> "fetch", req |-> req]
EvLog(tag, error) == [type |-> "console.error", tag |-> tag, error |-> error]
EvThrow(error)    == [type |-> "throw", error |-> error]
EvReturn(value)   == [type |-> "return", value |-> value]

(***************************************************************************)
(* The bodies of the two try/catch blocks.                                 *)
(***************************************************************************)
\* Variant: .catch(() => ({})), no fallback detail.
ErrorBodyEmpty(parse, fallback) ==
  IF parse.ok THEN parse.value ELSE JObj(NoFields)

\* response.json().catch(() => ({ detail: fallback }))
ErrorBody(parse, fallback) ==
  IF parse.ok THEN parse.value ELSE JObj([detail |-> JStr(fallback)])

\* Variant: error.detail ?? `HTTP ${response.status}`
HttpErrorNullish(error, status) ==
  IF error.t = "null"
    THEN NullReadError
    ELSE LET d == Detail(error)
         IN  Error(IF d.t \in {"undefined", "null"}
                     THEN "HTTP " \o ToString(status) ELSE ToStr(d))

\* new Error(error.detail || `HTTP ${response.status}`)
HttpError(error, status) ==
  IF error.t = "null"
    THEN NullReadError
    ELSE LET d == Detail(error)
         IN  Error(IF Truthy(d) THEN ToStr(d) ELSE "HTTP " \o ToString(status))

\* Variant: the catch block logs and does not rethrow.
FetchCatchSwallow(endpoint, error) ==
  << EvLog("API Error [" \o endpoint \o "]:", error), EvReturn(JUndefined) >>

\* Variant: the catch block retries the request once before rethrowing.
FetchCatchRetry(endpoint, error) ==
  << EvLog("API Error [" \o endpoint \o "]:", error),
     EvFetch([url |-> API_BASE_URL \o endpoint,
              init |-> Init3(FALSE, "", FALSE, NoBody, TRUE,
                             (ContentType :> JsonType))]),
     EvThrow(error) >>

\* catch block of _fetch
FetchCatch(endpoint, error) ==
  << EvLog("API Error [" \o endpoint \o "]:", error), EvThrow(error) >>

\* catch block of uploadAudio
UploadCatch(error) ==
  << EvLog("Upload Error:", error), EvThrow(error) >>

\* Variant: the parsed body returned inside an envelope.
FetchBodyWrapped(endpoint, status, parse) ==
  IF ~Ok(status)
    THEN FetchCatch(endpoint, HttpError(ErrorBody(parse, "Unknown error"), status))
    ELSE IF parse.ok THEN << EvReturn(JObj([data |-> parse.value])) >>
                     ELSE FetchCatch(endpoint, parse.error)

\* _fetch once the body promise has settled
FetchBody(endpoint, status, parse) ==
  IF ~Ok(status)
    THEN FetchCatch(endpoint, HttpError(ErrorBody(parse, "Unknown error"), status))
    ELSE IF parse.ok THEN << EvReturn(parse.value) >>
                     ELSE FetchCatch(endpoint, parse.error)

\* Variant: the error built from the status alone, the body not read.
UploadBodyStatusOnly(status, parse) ==
  IF ~Ok(status)
    THEN UploadCatch(Error("HTTP " \o ToString(status)))
    ELSE IF parse.ok THEN << EvReturn(parse.value) >>
                     ELSE UploadCatch(parse.error)

\* uploadAudio once the body promise has settled
UploadBody(status, parse) ==
  IF ~Ok(status)
    THEN UploadCatch(HttpError(ErrorBody(parse, "Upload failed"), status))
    ELSE IF parse.ok THEN << EvReturn(parse.value) >>
                     ELSE UploadCatch(parse.error)

(***************************************************************************)
(* Arguments.                                                              *)
(***************************************************************************)
Omitted  == [given |-> FALSE, n |-> 0]
Given(n) == [given |-> TRUE, n |-> n]

NArgs   == {Omitted} \cup {Given(n) : n \in 0..MaxN}
CallIds == {"abc123", "c-42"}
Files   == {"call-1.wav", "call-2.mp3"}

\* Variant: arg || default, which also replaces 0.
DefaultParamFalsy(arg, default) ==
  IF arg.given /\ arg.n # 0 THEN arg.n ELSE default

\* A default parameter value applies when the argument is undefined.
DefaultParam(arg, default) == IF arg.given THEN arg.n ELSE default

(***************************************************************************)
(* State.                                                                  *)
(***************************************************************************)
VARIABLES
  baseUrl,   \* this.baseUrl
  calls,     \* per slot: the async call running in it
  wire       \* per slot: what the transport holds for the slot's request

vars == << baseUrl, calls, wire >>

NoResponse == [stage |-> "none", status |-> 0, body |-> ""]

IdleCall ==
  [pc |-> "idle", fn |-> "", endpoint |-> "", response |-> NoResponse,
   events |-> << >>]

Init ==
  /\ baseUrl \in BaseUrls
  /\ calls = [i \in Slots |-> IdleCall]
  /\ wire  = [i \in Slots |-> NoResponse]

(***************************************************************************)
(* The calls, up to their first await.                                     *)
(***************************************************************************)
\* async _fetch(endpoint, options = {}), up to `await fetch(...)`
_fetch(i, endpoint, options) ==
  /\ calls[i].pc = "idle"
  /\ calls' = [calls EXCEPT ![i] =
       [pc |-> "awaitFetch", fn |-> "_fetch", endpoint |-> endpoint,
        response |-> NoResponse,
        events |-> << EvFetch(FetchRequest(baseUrl, endpoint, options)) >>]]
  /\ wire' = [wire EXCEPT ![i] = [NoResponse EXCEPT !.stage = "request"]]
  /\ UNCHANGED baseUrl

\* async uploadAudio(file), up to `await fetch(...)`
uploadAudio(i, file) ==
  /\ calls[i].pc = "idle"
  /\ calls' = [calls EXCEPT ![i] =
       [pc |-> "awaitFetch", fn |-> "uploadAudio", endpoint |-> "/api/upload/audio",
        response |-> NoResponse,
        events |-> << EvFetch(UploadRequest(baseUrl, file)) >>]]
  /\ wire' = [wire EXCEPT ![i] = [NoResponse EXCEPT !.stage = "request"]]
  /\ UNCHANGED baseUrl

getProcessingStatus(i, callId) ==
  _fetch(i, "/api/processing/status/" \o callId, NoOptions)

getTranscript(i, callId) ==
  _fetch(i, "/api/processing/transcript/" \o callId, NoOptions)

getQualityScore(i, callId) ==
  _fetch(i, "/api/processing/quality/" \o callId, NoOptions)

getComplianceFlags(i, callId) ==
  _fetch(i, "/api/processing/compliance/" \o callId, NoOptions)

getFullReport(i, callId) ==
  _fetch(i, "/api/processing/full-report/" \o callId, NoOptions)

DashboardEndpoint(days) ==
  "/api/analytics/dashboard?days=" \o ToString(DefaultParam(days, 7))

getDashboardStats(i, days) == _fetch(i, DashboardEndpoint(days), NoOptions)

RecentCallsEndpoint(limit) ==
  "/api/analytics/recent-calls?limit=" \o ToString(DefaultParam(limit, 10))

getRecentCalls(i, limit) == _fetch(i, RecentCallsEndpoint(limit), NoOptions)

QualityTrendsEndpoint(days) ==
  "/api/analytics/quality-trends?days=" \o ToString(DefaultParam(days, 30))

getQualityTrends(i, days) == _fetch(i, QualityTrendsEndpoint(days), NoOptions)

deleteCall(i, callId) ==
  _fetch(i, "/api/calls/" \o callId, Options(TRUE, "DELETE", FALSE, NoProps))

ComplianceSummaryEndpoint(days) ==
  "/api/analytics/compliance-summary?days=" \o ToString(DefaultParam(days, 7))

getComplianceSummary(i, days) ==
  _fetch(i, ComplianceSummaryEndpoint(days), NoOptions)

(***************************************************************************)
(* The transport: the backend answers a request, or the request fails.     *)
(***************************************************************************)
ServerRespond(i, status, body) ==
  /\ wire[i].stage = "request"
  /\ wire' = [wire EXCEPT ![i] =
       [stage |-> "response", status |-> status, body |-> body]]
  /\ UNCHANGED << baseUrl, calls >>

NetworkFail(i) ==
  /\ wire[i].stage = "request"
  /\ wire' = [wire EXCEPT ![i] = [NoResponse EXCEPT !.stage = "failed"]]
  /\ UNCHANGED << baseUrl, calls >>

\* Variant: one shared "latest response" for all calls in flight.
SettlementShared(w, i) ==
  w[CHOOSE j \in DOMAIN w :
      /\ w[j].stage \in {"failed", "response"}
      /\ \A k \in DOMAIN w : w[k].stage \in {"failed", "response"} => j <= k]

\* What the fetch promise of the call in slot i settles with.
Settlement(w, i) == w[i]

(***************************************************************************)
(* The calls, resumed.                                                     *)
(***************************************************************************)
\* The catch block of the function running in slot i.
Catch(c, error) ==
  IF c.fn = "uploadAudio" THEN UploadCatch(error)
                          ELSE FetchCatch(c.endpoint, error)

\* `await fetch(...)` settles: the call runs on to `await response.json()`,
\* or through its catch block when the fetch was rejected.
FetchSettled(i) ==
  /\ calls[i].pc = "awaitFetch"
  /\ wire[i].stage \in {"failed", "response"}
  /\ LET r == Settlement(wire, i)
         c == calls[i]
     IN  calls' = [calls EXCEPT ![i] =
           IF r.stage = "failed"
             THEN [c EXCEPT !.pc = "rejected",
                            !.events = c.events \o Catch(c, NetworkError)]
             ELSE [c EXCEPT !.pc = IF Ok(r.status) THEN "awaitJson"
                                                   ELSE "awaitErrorJson",
                            !.response = r]]
  /\ UNCHANGED << baseUrl, wire >>

\* `await response.json()` settles: the call runs to its end.
JsonSettled(i) ==
  /\ calls[i].pc \in {"awaitJson", "awaitErrorJson"}
  /\ LET c     == calls[i]
         parse == ParseJSON(c.response.body)
         rest  == IF c.fn = "uploadAudio"
                    THEN UploadBody(c.response.status, parse)
                    ELSE FetchBody(c.endpoint, c.response.status, parse)
     IN  calls' = [calls EXCEPT ![i] =
           [c EXCEPT !.pc = IF rest[Len(rest)].type = "return"
                              THEN "fulfilled" ELSE "rejected",
                     !.events = c.events \o rest]]
  /\ UNCHANGED << baseUrl, wire >>

\* The caller has taken the result; the slot is free for another call.
Consume(i) ==
  /\ calls[i].pc \in {"fulfilled", "rejected"}
  /\ calls' = [calls EXCEPT ![i] = IdleCall]
  /\ wire'  = [wire EXCEPT ![i] = NoResponse]
  /\ UNCHANGED baseUrl

(***************************************************************************)
(* Sequential use: the caller awaits each call before making the next.     *)
(***************************************************************************)
NoCallRunning == \A j \in Slots : calls[j].pc = "idle"

RawEndpoints == {"/api/calls/abc123"}

HeaderSets ==
  { (ContentType :> "text/plain"),
    ("X-Request-Id" :> "r1"),
    (ContentType :> "text/plain") @@ ("X-Request-Id" :> "r1") }

OptionSets ==
  { Options(hm, m, FALSE, NoProps) : hm \in {FALSE}, m \in {""} }
    \cup { Options(TRUE, "DELETE", TRUE, h) : h \in HeaderSets }
    \cup { Options(FALSE, "", TRUE, h) : h \in HeaderSets }

Next ==
  \/ \E i \in Slots, e \in RawEndpoints, o \in OptionSets :
       NoCallRunning /\ _fetch(i, e, o)
  \/ \E i \in Slots, f \in Files : NoCallRunning /\ uploadAudio(i, f)
  \/ \E i \in Slots, id \in CallIds : NoCallRunning /\ getProcessingStatus(i, id)
  \/ \E i \in Slots, id \in CallIds : NoCallRunning /\ getTranscript(i, id)
  \/ \E i \in Slots, id \in CallIds : NoCallRunning /\ getQualityScore(i, id)
  \/ \E i \in Slots, id \in CallIds : NoCallRunning /\ getComplianceFlags(i, id)
  \/ \E i \in Slots, id \in CallIds : NoCallRunning /\ getFullReport(i, id)
  \/ \E i \in Slots, n \in NArgs : NoCallRunning /\ getDashboardStats(i, n)
  \/ \E i \in Slots, n \in NArgs : NoCallRunning /\ getRecentCalls(i, n)
  \/ \E i \in Slots, n \in NArgs : NoCallRunning /\ getQualityTrends(i, n)
  \/ \E i \in Slots, id \in CallIds : NoCallRunning /\ deleteCall(i, id)
  \/ \E i \in Slots, n \in NArgs : NoCallRunning /\ getComplianceSummary(i, n)
  \/ \E i \in Slots, s \in Statuses, b \in BodyTexts : ServerRespond(i, s, b)
  \/ \E i \in Slots : NetworkFail(i)
  \/ \E i \in Slots : FetchSettled(i)
  \/ \E i \in Slots : JsonSettled(i)
  \/ \E i \in Slots : Consume(i)

Spec == Init /\ [][Next]_vars

(***************************************************************************)
(* Concurrent use of the singleton `api`: any slot may start a call while  *)
(* others are in flight, and the transport answers in any order.           *)
(***************************************************************************)
ConcStatuses == {200, 404}

ConcBodies ==
  { "<html>Bad Gateway</html>",
    "{\"call_id\":\"abc123\"}",
    "{\"detail\":\"Call not found\"}" }

InitConc ==
  /\ baseUrl = API_BASE_URL
  /\ calls = [i \in Slots |-> IdleCall]
  /\ wire  = [i \in Slots |-> NoResponse]

NextConc ==
  \/ \E i \in Slots : uploadAudio(i, "call-1.wav")
  \/ \E i \in Slots : getTranscript(i, "abc123")
  \/ \E i \in Slots : getDashboardStats(i, Omitted)
  \/ \E i \in Slots : deleteCall(i, "abc123")
  \/ \E i \in Slots, s \in ConcStatuses, b \in ConcBodies : ServerRespond(i, s, b)
  \/ \E i \in Slots : NetworkFail(i)
  \/ \E i \in Slots : FetchSettled(i)
  \/ \E i \in Slots : JsonSettled(i)
  \/ \E i \in Slots : Consume(i)

SpecConc == InitConc /\ [][NextConc]_vars

(***************************************************************************)
(* Vocabulary of the properties.                                           *)
(***************************************************************************)
Started(c) == c.pc # "idle"
Done(c)    == c.pc \in {"fulfilled", "rejected"}
Last(c)    == c.events[Len(c.events)]
Request(c) == c.events[1].req

Count(events, type) ==
  Cardinality({k \in DOMAIN events : events[k].type = type})

\* The backend answered the request of slot i with status and body.
Answered(i)   == wire[i].stage = "response"
BodyParse(i)  == ParseJSON(wire[i].body)
ErrorAnswer(i) == Answered(i) /\ ~Ok(wire[i].status)

\* The message of the error a finished call threw (no message if it returned).
Message(c) == IF Last(c).type = "throw" THEN Last(c).error.message ELSE ""

(***************************************************************************)
(* C1: whenever a call of any public operation got a success status with   *)
(* a body that is valid JSON, the finished call has returned exactly the   *)
(* parsed body, and has neither thrown nor logged: its events are its one  *)
(* fetch and the return.                                                   *)
(***************************************************************************)
C1_SuccessReturnsParsedBody ==
  \A i \in Slots :
    (Done(calls[i]) /\ Answered(i) /\ Ok(wire[i].status) /\ BodyParse(i).ok)
      => /\ calls[i].pc = "fulfilled"
         /\ Len(calls[i].events) = 2
         /\ calls[i].events[1].type = "fetch"
         /\ calls[i].events[2] = EvReturn(BodyParse(i).value)

C1_Witness ==
  \E i \in Slots :
    /\ calls[i].pc = "fulfilled"
    /\ wire[i].body = "{\"call_id\":\"abc123\"}"
    /\ Last(calls[i]) = EvReturn(JObj([call_id |-> JStr("abc123")]))

(***************************************************************************)
(* C2 as stated: whenever a call got a non-success status with a JSON body *)
(* that has a `detail` field, whatever its value, the call fails with an   *)
(* error whose message equals the value of that field.                     *)
(***************************************************************************)
HasDetail(i) ==
  /\ BodyParse(i).ok
  /\ BodyParse(i).value.t = "object"
  /\ "detail" \in DOMAIN BodyParse(i).value.f

DetailOf(i) == BodyParse(i).value.f["detail"]

C2_Original ==
  \A i \in Slots :
    (Done(calls[i]) /\ ErrorAnswer(i) /\ HasDetail(i))
      => /\ calls[i].pc = "rejected"
         /\ JStr(Message(calls[i])) = DetailOf(i)

(***************************************************************************)
(* C2 amended: with a `detail` field present in a non-success JSON body,   *)
(* the call fails, and its message is the detail itself when the detail    *)
(* is a non-empty string, the decimal text of the detail when it is a      *)
(* non-zero number, "[object Object]" when it is an object, and            *)
(* `HTTP <status>` when the detail is falsy ("", 0 or null).               *)
(***************************************************************************)
C2_DetailMessage ==
  \A i \in Slots :
    (Done(calls[i]) /\ ErrorAnswer(i) /\ HasDetail(i))
      => LET d == DetailOf(i)
             m == Message(calls[i])
         IN  /\ calls[i].pc = "rejected"
             /\ Last(calls[i]).error.name = "Error"
             /\ (d.t = "string" /\ d.s # "") => m = d.s
             /\ (d.t = "number" /\ d.n # 0) => m = ToString(d.n)
             /\ d.t = "object" => m = "[object Object]"
             /\ (d = JStr("") \/ d = JNum(0) \/ d = JNull)
                  => m = "HTTP " \o ToString(wire[i].status)

C2_Witness ==
  \E i \in Slots :
    /\ calls[i].pc = "rejected"
    /\ wire[i].status = 404
    /\ wire[i].body = "{\"detail\":\"\"}"
    /\ Message(calls[i]) = "HTTP 404"

(***************************************************************************)
(* C3 as stated: whenever a call got a non-success status S with a body    *)
(* that is not valid JSON, or is JSON without a `detail` field, the call   *)
(* fails with the message `HTTP S`.                                        *)
(***************************************************************************)
C3_Original ==
  \A i \in Slots :
    (Done(calls[i]) /\ ErrorAnswer(i) /\ ~HasDetail(i))
      => /\ calls[i].pc = "rejected"
         /\ Message(calls[i]) = "HTTP " \o ToString(wire[i].status)

(***************************************************************************)
(* C3 amended: with a non-success status S, a JSON body other than null    *)
(* that has no `detail` field fails the call with the message `HTTP S`; a  *)
(* body that is not valid JSON fails it with the fallback message,         *)
(* "Upload failed" in uploadAudio and "Unknown error" in every other       *)
(* operation; the JSON body null fails it with the TypeError of reading    *)
(* `detail` of null.                                                       *)
(***************************************************************************)
C3_NoDetailMessage ==
  \A i \in Slots :
    (Done(calls[i]) /\ ErrorAnswer(i) /\ ~HasDetail(i))
      => LET m == Message(calls[i])
         IN  /\ calls[i].pc = "rejected"
             /\ (BodyParse(i).ok /\ BodyParse(i).value # JNull)
                  => m = "HTTP " \o ToString(wire[i].status)
             /\ (~BodyParse(i).ok /\ calls[i].fn = "uploadAudio")
                  => m = "Upload failed"
             /\ (~BodyParse(i).ok /\ calls[i].fn = "_fetch")
                  => m = "Unknown error"
             /\ (BodyParse(i).ok /\ BodyParse(i).value = JNull)
                  => Last(calls[i]).error.name = "TypeError"

C3_Witness ==
  \E i \in Slots :
    /\ calls[i].pc = "rejected"
    /\ calls[i].fn = "_fetch"
    /\ wire[i].status = 500
    /\ wire[i].body = "<html>Bad Gateway</html>"
    /\ Message(calls[i]) = "Unknown error"

(***************************************************************************)
(* C4: in every call routed through _fetch in which a failure occurred     *)
(* (the fetch was rejected, the status was not a success status, or the    *)
(* success body did not parse), the finished call has written exactly one  *)
(* console.error entry, tagged with its endpoint, before throwing, and it  *)
(* ends by throwing the very error it logged; it returns no value.         *)
(***************************************************************************)
Failure(i) ==
  \/ wire[i].stage = "failed"
  \/ ErrorAnswer(i)
  \/ Answered(i) /\ ~BodyParse(i).ok

C4_FailureLoggedOnceThenRaised ==
  \A i \in Slots :
    (Done(calls[i]) /\ calls[i].fn = "_fetch" /\ Failure(i))
      => LET ev == calls[i].events
         IN  /\ calls[i].pc = "rejected"
             /\ Len(ev) = 3
             /\ Request(calls[i]).url = baseUrl \o calls[i].endpoint
             /\ ev[2].type = "console.error"
             /\ ev[2].tag = "API Error [" \o calls[i].endpoint \o "]:"
             /\ ev[3].type = "throw"
             /\ ev[3].error = ev[2].error
             /\ Count(ev, "console.error") = 1
             /\ Count(ev, "return") = 0
             /\ wire[i].stage = "failed" => ev[3].error = NetworkError
             /\ (Answered(i) /\ Ok(wire[i].status)) => ev[3].error = SyntaxError

C4_Witness ==
  \E i \in Slots :
    /\ calls[i].pc = "rejected"
    /\ calls[i].fn = "_fetch"
    /\ wire[i].status = 200
    /\ ~BodyParse(i).ok
    /\ calls[i].events[2] =
         EvLog("API Error [/api/processing/transcript/abc123]:", SyntaxError)

(***************************************************************************)
(* C5: a call of any public operation has issued exactly one request at    *)
(* every moment from its start to its end, whatever its outcome: none      *)
(* after a network failure, a non-success status or a parse failure, and   *)
(* no call ends without its request.                                       *)
(***************************************************************************)
C5_ExactlyOneRequest ==
  \A i \in Slots :
    Started(calls[i])
      => /\ Count(calls[i].events, "fetch") = 1
         /\ calls[i].events[1].type = "fetch"

C5_Witness ==
  \E i \in Slots :
    /\ calls[i].pc = "rejected"
    /\ wire[i].stage = "failed"
    /\ Count(calls[i].events, "fetch") = 1

(***************************************************************************)
(* C6: with several calls in flight at once, under every interleaving,     *)
(* each finished call ends with the result or error that its own function  *)
(* derives from the answer to its own request.                             *)
(***************************************************************************)
OwnOutcome(i) ==
  LET c == calls[i]
  IN  IF wire[i].stage = "failed"
        THEN Catch(c, NetworkError)
        ELSE IF c.fn = "uploadAudio"
               THEN UploadBody(wire[i].status, BodyParse(i))
               ELSE FetchBody(c.endpoint, wire[i].status, BodyParse(i))

C6_OwnResponse ==
  \A i \in Slots :
    Done(calls[i])
      => /\ wire[i].stage \in {"failed", "response"}
         /\ calls[i].events = << calls[i].events[1] >> \o OwnOutcome(i)

C6_Witness ==
  \E i, j \in Slots :
    /\ i < j
    /\ calls[i].pc = "rejected"
    /\ calls[j].pc = "fulfilled"
    /\ calls[i].endpoint = calls[j].endpoint
    /\ Message(calls[i]) = "Call not found"
    /\ Last(calls[j]) = EvReturn(JObj([call_id |-> JStr("abc123")]))

(***************************************************************************)
(* C7: every step that starts getDashboardStats, getRecentCalls,           *)
(* getQualityTrends or getComplianceSummary requests the operation's path  *)
(* with the default (7, 10, 30, 7) in the query string when the argument   *)
(* is omitted, and with the supplied number N when one is given.           *)
(***************************************************************************)
Query(path, arg, default) ==
  IF arg.given THEN path \o ToString(arg.n) ELSE path \o default

Requests(i, endpoint) == Request(calls[i]).url = baseUrl \o endpoint

C7_Step ==
  \A i \in Slots, n \in NArgs :
    /\ getDashboardStats(i, n)
         => Requests(i, Query("/api/analytics/dashboard?days=", n, "7"))'
    /\ getRecentCalls(i, n)
         => Requests(i, Query("/api/analytics/recent-calls?limit=", n, "10"))'
    /\ getQualityTrends(i, n)
         => Requests(i, Query("/api/analytics/quality-trends?days=", n, "30"))'
    /\ getComplianceSummary(i, n)
         => Requests(i, Query("/api/analytics/compliance-summary?days=", n, "7"))'

C7_QueryDefaults == [][C7_Step]_vars

C7_Witness ==
  \E i \in Slots :
    /\ calls[i].pc = "awaitFetch"
    /\ baseUrl = API_BASE_URL
    /\ Request(calls[i]).url
         = "http://localhost:8000/api/analytics/quality-trends?days=30"
    /\ Method(Request(calls[i])) = "GET"

(***************************************************************************)
(* C8: every step that starts uploadAudio with a file issues one request,  *)
(* a POST to base URL + /api/upload/audio whose body is a multipart form   *)
(* with the single field `file` holding that file and on which the client  *)
(* sets no Content-Type header; the call issues no other request later.    *)
(***************************************************************************)
C8_Step ==
  \A i \in Slots, f \in Files :
    uploadAudio(i, f)
      => /\ Len(calls'[i].events) = 1
         /\ calls'[i].events[1].type = "fetch"
         /\ LET req == calls'[i].events[1].req
            IN  /\ req.url = baseUrl \o "/api/upload/audio"
                /\ Method(req) = "POST"
                /\ req.init.hasBody
                /\ req.init.body.kind = "FormData"
                /\ req.init.body.fields = << <<"file", f>> >>
                /\ ContentType \notin DOMAIN Headers(req)

C8_Lifetime ==
  \A i \in Slots :
    (Started(calls[i]) /\ calls[i].fn = "uploadAudio")
      => /\ Count(calls[i].events, "fetch") = 1
         /\ Method(Request(calls[i])) = "POST"
         /\ Len(Request(calls[i]).init.body.fields) = 1
         /\ ContentType \notin DOMAIN Headers(Request(calls[i]))

C8_UploadRequest == [][C8_Step]_vars /\ []C8_Lifetime

C8_Witness ==
  \E i \in Slots :
    /\ Done(calls[i])
    /\ calls[i].fn = "uploadAudio"
    /\ Request(calls[i]).init.body = FormData(<< <<"file", "call-2.mp3">> >>)

(***************************************************************************)
(* C9 as stated: for every transport outcome, a finished uploadAudio call  *)
(* has returned the value, or thrown an error with the message, that the   *)
(* handling of _fetch yields for the same outcome.                         *)
(***************************************************************************)
Outcome(events) ==
  LET l == events[Len(events)]
  IN  IF l.type = "return"
        THEN [kind |-> "return", value |-> l.value, message |-> ""]
        ELSE [kind |-> "throw", value |-> JUndefined, message |-> l.error.message]

GenericOutcome(i) ==
  IF wire[i].stage = "failed"
    THEN Outcome(FetchCatch("/api/upload/audio", NetworkError))
    ELSE Outcome(FetchBody("/api/upload/audio", wire[i].status, BodyParse(i)))

C9_Original ==
  \A i \in Slots :
    (Done(calls[i]) /\ calls[i].fn = "uploadAudio")
      => Outcome(calls[i].events) = GenericOutcome(i)

(***************************************************************************)
(* C9 amended: a finished uploadAudio call has the outcome that the        *)
(* handling of _fetch yields for the same transport outcome, except for a  *)
(* non-success status with a body that is not valid JSON, where            *)
(* uploadAudio throws "Upload failed" and _fetch throws "Unknown error".   *)
(***************************************************************************)
C9_SameHandlingButFallback ==
  \A i \in Slots :
    (Done(calls[i]) /\ calls[i].fn = "uploadAudio")
      => IF ErrorAnswer(i) /\ ~BodyParse(i).ok
           THEN /\ Outcome(calls[i].events).kind = "throw"
                /\ Outcome(calls[i].events).message = "Upload failed"
                /\ GenericOutcome(i).kind = "throw"
                /\ GenericOutcome(i).message = "Unknown error"
           ELSE Outcome(calls[i].events) = GenericOutcome(i)

C9_Witness ==
  \E i \in Slots :
    /\ calls[i].pc = "rejected"
    /\ calls[i].fn = "uploadAudio"
    /\ wire[i].status = 500
    /\ wire[i].body = "{\"detail\":422}"
    /\ Message(calls[i]) = "422"

(***************************************************************************)
(* C10 as stated: every request sent through _fetch carries                *)
(* Content-Type: application/json, whatever headers the caller supplied.   *)
(***************************************************************************)
C10_Original ==
  \A i \in Slots :
    (Started(calls[i]) /\ calls[i].fn = "_fetch")
      => /\ ContentType \in DOMAIN Headers(Request(calls[i]))
         /\ Headers(Request(calls[i]))[ContentType] = JsonType

(***************************************************************************)
(* C10 amended: caller-supplied headers override the default.  Every step  *)
(* that starts _fetch sends exactly the caller's headers, each with the    *)
(* caller's value, plus Content-Type: application/json when the caller     *)
(* supplied no Content-Type; the public non-upload operations supply no    *)
(* headers, so each of their requests sends Content-Type:                  *)
(* application/json.                                                       *)
(***************************************************************************)
PublicJsonCall(i) ==
  \/ \E id \in CallIds :
       \/ getProcessingStatus(i, id)
       \/ getTranscript(i, id)
       \/ getQualityScore(i, id)
       \/ getComplianceFlags(i, id)
       \/ getFullReport(i, id)
       \/ deleteCall(i, id)
  \/ \E n \in NArgs :
       \/ getDashboardStats(i, n)
       \/ getRecentCalls(i, n)
       \/ getQualityTrends(i, n)
       \/ getComplianceSummary(i, n)

C10_Step ==
  \A i \in Slots :
    /\ \A e \in RawEndpoints, o \in OptionSets :
         _fetch(i, e, o)
           => LET sent   == Headers(Request(calls'[i]))
                  caller == IF "headers" \in DOMAIN o THEN o.headers ELSE NoProps
              IN  /\ DOMAIN sent = DOMAIN caller \cup {ContentType}
                  /\ \A k \in DOMAIN caller : sent[k] = caller[k]
                  /\ ContentType \notin DOMAIN caller => sent[ContentType] = JsonType
    /\ PublicJsonCall(i)
         => Headers(Request(calls'[i])) = (ContentType :> JsonType)

C10_CallerHeadersOverride == [][C10_Step]_vars

C10_Witness ==
  \E i \in Slots :
    /\ Started(calls[i])
    /\ calls[i].fn = "_fetch"
    /\ Headers(Request(calls[i]))
         = (ContentType :> "text/plain") @@ ("X-Request-Id" :> "r1")

====
